---------------------------- MODULE Spec2Model ----------------------------
(***************************************************************************)
(* A model of datadog_checks/base/utils/db/utils.py:                       *)
(*   - create_submission_transformer (the two-stage transformer closure),  *)
(*   - create_extra_transformer (the reference-name wrapper),              *)
(*   - ConstantRateLimiter,                                                *)
(*   - resolve_db_host.                                                    *)
(* The four helpers do not interact; each has a specification of its own   *)
(* (SpecT / SpecC, SpecX, SpecL, SpecR) over its own variables, the other  *)
(* helpers' variables staying at their initial values.                     *)
(***************************************************************************)
EXTENDS Integers, Sequences, FiniteSets, TLC

(***************************************************************************)
(* Bounds and value domains.                                               *)
(***************************************************************************)
\* Longest tuple of positional arguments (creation-time or call-time).
MaxArgs == 2

\* Values that travel as positional arguments and as keyword values.
Vals == {1, 2}

\* Keyword names (modifier names such as tags, hostname).
Keys == {"tags", "hostname"}

\* Python dicts with string keys: functions from a subset of Keys to Vals.
Dicts == UNION {[D -> Vals] : D \in SUBSET Keys}

EmptyDict == [k \in {} |-> 0]

\* Tuples of positional arguments of length at most n.
TuplesUpTo(n) == UNION {[1..m -> Vals] : m \in 0..n}

ArgTuples == TuplesUpTo(MaxArgs)

\* The callers that may invoke one transformer instance.
Callers == {"c1", "c2"}

\* Python's None where a string is expected (source=None, host=None).
None == "<None>"

\* Reference names of the Source Map.
Refs == {"col_a", "col_b"}

\* Source Maps: reference name -> collected value.
SourceMaps == UNION {[D -> Vals] : D \in SUBSET Refs}

\* Call-time inputs of the concurrent specification: one Source Map, one
\* value, any keywords.
ConcArgTuples == {<<1>>, <<2>>}

ConcSourceMap == [r \in Refs |-> 1]

VARIABLES
  \* ---- create_submission_transformer: the closure cells of one transformer
  creation_args,   \* *creation_args of get_transformer
  modifiers,       \* **modifiers of get_transformer
  creation_args0,  \* history: creation_args as passed at construction
  modifiers0,      \* history: modifiers as passed at construction
  callers,         \* the callers that invoke the transformer in this run
  \* ---- one frame of transformer(_sources, *call_args, **kwargs) per caller
  t_pc,            \* "idle" | "update" (before line 39) | "submit" (before line 43) | "returned"
  t_sources,       \* the frame's _sources (the Source Map, unused by the body)
  call_args,       \* the frame's *call_args
  kwargs,          \* the frame's **kwargs dict (a fresh dict per call)
  call_kwargs,     \* history: the keyword arguments the caller passed
  submitted,       \* history: the submit_method calls made by this invocation
  overlap,         \* history: another caller stepped while this frame was live
  collided         \* history: an earlier invocation passed a keyword that is also a
                   \* modifier, with another value

tvars == <<creation_args, modifiers, creation_args0, modifiers0, callers,
           t_pc, t_sources, call_args, kwargs, call_kwargs, submitted, overlap, collided>>

VARIABLES
  x_source,       \* the closed-over source of create_extra_transformer
  x_transformer,  \* what create_extra_transformer returned: "wrapper" | "column_transformer"
  x_pc,           \* "idle" | "call" (before line 57) | "returned" | "raised"
  x_sources,      \* the Source Map the caller passed
  x_args,         \* the extra positional arguments the caller passed
  x_kwargs,       \* the keyword arguments the caller passed
  column_calls,   \* history: the calls column_transformer received in this invocation
  x_error         \* the exception that left the invocation: "" | "TypeError" | "KeyError"

xvars == <<x_source, x_transformer, x_pc, x_sources, x_args, x_kwargs,
           column_calls, x_error>>

VARIABLES
  now,           \* the clock read by time.time()
  rate_limit_s,  \* self.rate_limit_s
  period_s,      \* self.period_s, in ticks
  last_event,    \* self.last_event, in ticks
  l_pc,          \* "idle" | "sleep" (before line 91) | "sleeping" (in time.sleep) | "stamp" (before line 92)
  elapsed_s,     \* local of sleep()
  sleep_amount,  \* local of sleep(); keeps the last call's value after the return
  wake_at,       \* the instant time.sleep(sleep_amount) may return at the earliest
  prev_event,    \* history: last_event before the last completed sleep()
  completed      \* history: completed sleep() calls: 0, 1, 2 (two or more)

lvars == <<now, rate_limit_s, period_s, last_event, l_pc, elapsed_s, sleep_amount,
           wake_at, prev_event, completed>>

VARIABLES
  agent_name,      \* environment: what datadog_agent.get_hostname() returns
  dns,             \* environment: name -> IP address, or NXDOMAIN
  r_pc,            \* "idle" | "check" (before line 97) | "lookup_agent" (in line 101) | "returned" | "raised"
  host,            \* the argument of the call (kept after the return)
  agent_hostname,  \* local of resolve_db_host
  host_ip,         \* local of resolve_db_host
  agent_ip,        \* history: what the lookup of line 101 returned
  result,          \* the returned string (kept after the return)
  n_get_hostname,  \* history: datadog_agent.get_hostname() calls of this call
  n_lookups,       \* history: socket.gethostbyname calls of this call
  n_debug,         \* history: LOGGER.debug records of this call
  failed,          \* history: the lookup that failed: "" | "host" | "agent"
  prev,            \* history: an earlier call, <<>> or <<[host, agent, dns, result]>>
  between          \* history: a call for another host was made since prev

rvars == <<agent_name, dns, r_pc, host, agent_hostname, host_ip, agent_ip, result,
           n_get_hostname, n_lookups, n_debug, failed, prev, between>>

(***************************************************************************)
(* create_submission_transformer                                           *)
(***************************************************************************)
\* dict.update: d.update(o) leaves d with o's entries over its own.
DictUpdate(d, o) ==
  [k \in (DOMAIN d) \cup (DOMAIN o) |-> IF k \in DOMAIN o THEN o[k] ELSE d[k]]

\* Fault: the merge written the other way round, modifiers.update(kwargs).
MergedKwargsCallWins(kw, mods) == DictUpdate(mods, kw)

\* line 39: kwargs.update(modifiers)
MergedKwargs(kw, mods) == DictUpdate(kw, mods)

\* Fault: the two groups chained in the other order.
ChainCallFirst(cargs, args) == args \o cargs

\* line 43: chain(creation_args, call_args)
Chain(cargs, args) == cargs \o args

\* Another caller's step is seen by every frame that is between its entry and its return.
Overlapped(c) ==
  [d \in Callers |->
     IF d # c /\ t_pc[d] \in {"update", "submit"} THEN TRUE ELSE overlap[d]]

\* Fault: the keyword arguments kept in one cell shared by all frames.
InvokeSharedKwargs(c, S, A, K) ==
  /\ c \in callers
  /\ t_pc[c] = "idle"
  /\ \E srcs \in S, a \in A, k \in K :
       /\ t_sources' = [t_sources EXCEPT ![c] = srcs]
       /\ call_args' = [call_args EXCEPT ![c] = a]
       /\ kwargs' = [d \in Callers |-> k]
       /\ call_kwargs' = [call_kwargs EXCEPT ![c] = k]
  /\ t_pc' = [t_pc EXCEPT ![c] = "update"]
  /\ submitted' = [submitted EXCEPT ![c] = <<>>]
  /\ overlap' = [Overlapped(c) EXCEPT ![c] = FALSE]
  /\ UNCHANGED <<creation_args, modifiers, creation_args0, modifiers0, callers, collided>>
  /\ UNCHANGED <<xvars, lvars, rvars>>

\* line 38: caller c enters transformer(_sources, *call_args, **kwargs) with a
\* Source Map of S, positional arguments of A and keyword arguments of K; they
\* are bound to the frame's own locals.
Invoke(c, S, A, K) ==
  /\ c \in callers
  /\ t_pc[c] = "idle"
  /\ \E srcs \in S, a \in A, k \in K :
       /\ t_sources' = [t_sources EXCEPT ![c] = srcs]
       /\ call_args' = [call_args EXCEPT ![c] = a]
       /\ kwargs' = [kwargs EXCEPT ![c] = k]
       /\ call_kwargs' = [call_kwargs EXCEPT ![c] = k]
  /\ t_pc' = [t_pc EXCEPT ![c] = "update"]
  /\ submitted' = [submitted EXCEPT ![c] = <<>>]
  /\ overlap' = [Overlapped(c) EXCEPT ![c] = FALSE]
  /\ UNCHANGED <<creation_args, modifiers, creation_args0, modifiers0, callers, collided>>
  /\ UNCHANGED <<xvars, lvars, rvars>>

\* Fault: the merge done in place in the closed-over modifiers.
UpdateIntoModifiers(c) ==
  /\ c \in callers
  /\ t_pc[c] = "update"
  /\ modifiers' = DictUpdate(modifiers, kwargs[c])
  /\ kwargs' = [kwargs EXCEPT ![c] = modifiers']
  /\ t_pc' = [t_pc EXCEPT ![c] = "submit"]
  /\ overlap' = Overlapped(c)
  /\ UNCHANGED <<creation_args, creation_args0, modifiers0, callers,
                 t_sources, call_args, call_kwargs, submitted, collided>>
  /\ UNCHANGED <<xvars, lvars, rvars>>

\* line 39: kwargs.update(modifiers) changes the frame's kwargs only.
Update(c) ==
  /\ c \in callers
  /\ t_pc[c] = "update"
  /\ kwargs' = [kwargs EXCEPT ![c] = MergedKwargs(kwargs[c], modifiers)]
  /\ t_pc' = [t_pc EXCEPT ![c] = "submit"]
  /\ overlap' = Overlapped(c)
  /\ UNCHANGED <<creation_args, modifiers, creation_args0, modifiers0, callers,
                 t_sources, call_args, call_kwargs, submitted, collided>>
  /\ UNCHANGED <<xvars, lvars, rvars>>

\* line 43: submit_method(*chain(creation_args, call_args), **kwargs)
Submit(c) ==
  /\ c \in callers
  /\ t_pc[c] = "submit"
  /\ submitted' = [submitted EXCEPT ![c] =
        Append(@, [args |-> Chain(creation_args, call_args[c]),
                   kwargs |-> kwargs[c]])]
  /\ t_pc' = [t_pc EXCEPT ![c] = "returned"]
  /\ overlap' = Overlapped(c)
  /\ UNCHANGED <<creation_args, modifiers, creation_args0, modifiers0, callers,
                 t_sources, call_args, kwargs, call_kwargs, collided>>
  /\ UNCHANGED <<xvars, lvars, rvars>>

\* Some key is in both dicts, with different values.
Collides(kw, mods) ==
  \E k \in (DOMAIN kw) \cap (DOMAIN mods) : kw[k] # mods[k]

\* The call returns (None) and its frame is dropped.
Return(c) ==
  /\ c \in callers
  /\ t_pc[c] = "returned"
  /\ t_pc' = [t_pc EXCEPT ![c] = "idle"]
  /\ t_sources' = [t_sources EXCEPT ![c] = EmptyDict]
  /\ call_args' = [call_args EXCEPT ![c] = <<>>]
  /\ kwargs' = [kwargs EXCEPT ![c] = EmptyDict]
  /\ call_kwargs' = [call_kwargs EXCEPT ![c] = EmptyDict]
  /\ submitted' = [submitted EXCEPT ![c] = <<>>]
  /\ overlap' = [overlap EXCEPT ![c] = FALSE]
  /\ collided' = (collided \/ Collides(call_kwargs[c], modifiers0))
  /\ UNCHANGED <<creation_args, modifiers, creation_args0, modifiers0, callers>>
  /\ UNCHANGED <<xvars, lvars, rvars>>

\* lines 36-45: get_transformer(_transformers, *creation_args, **modifiers)
\* has returned a transformer closing over cargs and mods (the registry
\* _transformers is not kept).
GetTransformer(cargs, mods, cs) ==
  /\ creation_args = cargs
  /\ modifiers = mods
  /\ creation_args0 = cargs
  /\ modifiers0 = mods
  /\ callers = cs
  /\ t_pc = [c \in Callers |-> "idle"]
  /\ t_sources = [c \in Callers |-> EmptyDict]
  /\ call_args = [c \in Callers |-> <<>>]
  /\ kwargs = [c \in Callers |-> EmptyDict]
  /\ call_kwargs = [c \in Callers |-> EmptyDict]
  /\ submitted = [c \in Callers |-> <<>>]
  /\ overlap = [c \in Callers |-> FALSE]
  /\ collided = FALSE

(***************************************************************************)
(* create_extra_transformer                                                *)
(***************************************************************************)
\* The values create_extra_transformer may get as source.
SourceArgs == {None, ""} \cup Refs

\* Truth value of a str-or-None: None and "" are false.
Truthy(s) == s \notin {None, ""}

\* Fault: some value of the Source Map, whatever the reference name.
FirstSourceValue(srcs, ref) == srcs[CHOOSE r \in DOMAIN srcs : TRUE]

\* line 57: sources[source]
SourceValue(srcs, ref) == srcs[ref]

\* lines 50-64: create_extra_transformer(column_transformer, source) has returned.
CreateExtraTransformer(src) ==
  /\ x_source = src
  /\ x_transformer = IF Truthy(src) THEN "wrapper" ELSE "column_transformer"
  /\ x_pc = "idle"
  /\ x_sources = EmptyDict
  /\ x_args = <<>>
  /\ x_kwargs = EmptyDict
  /\ column_calls = <<>>
  /\ x_error = ""

\* line 62: the returned callable is column_transformer, so the caller's call
\* is a call of column_transformer with the caller's own arguments.
XInvokeColumnTransformer(srcs, a, k) ==
  /\ x_pc = "idle"
  /\ x_transformer = "column_transformer"
  /\ x_sources' = srcs /\ x_args' = a /\ x_kwargs' = k
  /\ column_calls' = <<[sources |-> srcs, args |-> a, kwargs |-> k]>>
  /\ x_pc' = "returned"
  /\ UNCHANGED <<x_source, x_transformer, x_error>>
  /\ UNCHANGED <<tvars, lvars, rvars>>

\* line 56: transformer(sources, **kwargs) takes one positional argument.
XInvokeWrapper(srcs, a, k) ==
  /\ x_pc = "idle"
  /\ x_transformer = "wrapper"
  /\ x_sources' = srcs /\ x_args' = a /\ x_kwargs' = k
  /\ column_calls' = <<>>
  /\ IF Len(a) > 0
       THEN x_pc' = "raised" /\ x_error' = "TypeError"
       ELSE x_pc' = "call" /\ x_error' = ""
  /\ UNCHANGED <<x_source, x_transformer>>
  /\ UNCHANGED <<tvars, lvars, rvars>>

\* line 57: return column_transformer(sources, sources[source], **kwargs)
XCallColumnTransformer ==
  /\ x_pc = "call"
  /\ x_source \in DOMAIN x_sources
  /\ column_calls' = Append(column_calls,
        [sources |-> x_sources,
         args |-> <<SourceValue(x_sources, x_source)>>,
         kwargs |-> x_kwargs])
  /\ x_pc' = "returned"
  /\ UNCHANGED <<x_source, x_transformer, x_sources, x_args, x_kwargs, x_error>>
  /\ UNCHANGED <<tvars, lvars, rvars>>

\* line 57: sources[source] raises KeyError when the Source Map lacks the name.
XKeyError ==
  /\ x_pc = "call"
  /\ x_source \notin DOMAIN x_sources
  /\ x_pc' = "raised"
  /\ x_error' = "KeyError"
  /\ UNCHANGED <<x_source, x_transformer, x_sources, x_args, x_kwargs, column_calls>>
  /\ UNCHANGED <<tvars, lvars, rvars>>

\* The invocation is over (returned or raised); the caller may call again.
XDone ==
  /\ x_pc \in {"returned", "raised"}
  /\ x_pc' = "idle"
  /\ x_sources' = EmptyDict /\ x_args' = <<>> /\ x_kwargs' = EmptyDict
  /\ column_calls' = <<>>
  /\ x_error' = ""
  /\ UNCHANGED <<x_source, x_transformer>>
  /\ UNCHANGED <<tvars, lvars, rvars>>

(***************************************************************************)
(* ConstantRateLimiter                                                     *)
(* Time is counted in clock ticks, TicksPerSecond of them to the second;   *)
(* time.time() reads the clock `now`, which never runs backwards.          *)
(***************************************************************************)
\* Resolution of the model's clock.
TicksPerSecond == 6

\* Last instant of the model's clock.
MaxTime == 14

\* The rate limits a limiter may be constructed with (events per second).
Rates == {-1, 0, 1, 2, 3}

Max(a, b) == IF a >= b THEN a ELSE b

\* line 82: 1 / rate_limit_s if rate_limit_s > 0 else 0, the division being
\* true division (Python 3), rounded down to the clock's resolution.
Period(rate) == IF rate > 0 THEN TicksPerSecond \div rate ELSE 0

\* Fault: the remaining time without the clamp at 0.
SleepAmountUnclamped(period, elapsed) == period - elapsed

\* line 90: max(self.period_s - elapsed_s, 0)
SleepAmount(period, elapsed) == Max(period - elapsed, 0)

\* lines 77-83: ConstantRateLimiter(rate) has been constructed at instant t.
LimiterInit(rate, t) ==
  /\ now = t
  /\ rate_limit_s = rate
  /\ period_s = Period(rate)
  /\ last_event = 0
  /\ l_pc = "idle"
  /\ elapsed_s = 0
  /\ sleep_amount = 0
  /\ wake_at = 0
  /\ prev_event = 0
  /\ completed = 0

\* Time passes; it may pass between any two steps of sleep().
Tick ==
  /\ now < MaxTime
  /\ now' = now + 1
  /\ UNCHANGED <<rate_limit_s, period_s, last_event, l_pc, elapsed_s, sleep_amount,
                 wake_at, prev_event, completed>>
  /\ UNCHANGED <<tvars, xvars, rvars>>

\* lines 89-90: elapsed_s = time.time() - self.last_event; sleep_amount = max(...)
LSleepEnter ==
  /\ l_pc = "idle"
  /\ elapsed_s' = now - last_event
  /\ sleep_amount' = SleepAmount(period_s, elapsed_s')
  /\ l_pc' = "sleep"
  /\ UNCHANGED <<now, rate_limit_s, period_s, last_event, wake_at, prev_event, completed>>
  /\ UNCHANGED <<tvars, xvars, rvars>>

\* line 91: time.sleep(sleep_amount) starts; it returns no earlier than
\* sleep_amount after this instant.
LSleepStart ==
  /\ l_pc = "sleep"
  /\ wake_at' = now + sleep_amount
  /\ l_pc' = "sleeping"
  /\ UNCHANGED <<now, rate_limit_s, period_s, last_event, elapsed_s, sleep_amount,
                 prev_event, completed>>
  /\ UNCHANGED <<tvars, xvars, rvars>>

\* line 91: time.sleep returns.
LWake ==
  /\ l_pc = "sleeping"
  /\ now >= wake_at
  /\ l_pc' = "stamp"
  /\ UNCHANGED <<now, rate_limit_s, period_s, last_event, elapsed_s, sleep_amount,
                 wake_at, prev_event, completed>>
  /\ UNCHANGED <<tvars, xvars, rvars>>

\* line 92: self.last_event = time.time()
LStamp ==
  /\ l_pc = "stamp"
  /\ last_event' = now
  /\ prev_event' = last_event
  /\ completed' = IF completed < 2 THEN completed + 1 ELSE 2
  /\ l_pc' = "idle"
  /\ UNCHANGED <<now, rate_limit_s, period_s, elapsed_s, sleep_amount, wake_at>>
  /\ UNCHANGED <<tvars, xvars, rvars>>

(***************************************************************************)
(* resolve_db_host                                                         *)
(* The environment is the agent's hostname (datadog_agent.get_hostname)    *)
(* and the name-resolution mapping (socket.gethostbyname); it may change   *)
(* between two calls and is steady while a call runs.                      *)
(***************************************************************************)
\* Names whose resolution depends on the environment.
DnsNames == {"agent.local", "db.internal"}

\* The hostnames the agent may report as its own.
AgentNames == {"agent.local", "db.internal"}

IPs == {"10.0.0.1", "10.0.0.2"}

\* socket.gaierror: the name does not resolve.
NXDOMAIN == "gaierror"

\* The values resolve_db_host may get as host.
ConfiguredHosts == {None, "", "localhost", "127.0.0.1"} \cup DnsNames

DnsMaps == [DnsNames -> IPs \cup {NXDOMAIN}]

\* Fault: the loopback literal missing from the test.
IsLocalNoLoopback(h) == h \in {None, "", "localhost"}

\* line 97: not host or host in {'localhost', '127.0.0.1'}
IsLocal(h) == h \in {None, ""} \/ h \in {"localhost", "127.0.0.1"}

\* socket.gethostbyname(name): an IP address, or NXDOMAIN for socket.gaierror.
\* The loopback names and the empty name resolve without the mapping.
GetHostByName(name) ==
  CASE name \in {"localhost", "127.0.0.1"} -> "127.0.0.1"
    [] name = "" -> "0.0.0.0"
    [] OTHER -> dns[name]

\* Fault: the two branches exchanged.
ResolvedHostSwapped(h, hip, aip, agent) == IF hip = aip THEN h ELSE agent

\* lines 101-106: the agent hostname for an alias of the agent, else the host.
ResolvedHost(h, hip, aip, agent) == IF hip = aip THEN agent ELSE h

\* resolve_db_host has not been called yet.
ResolverInit(agent, mapping) ==
  /\ agent_name = agent
  /\ dns = mapping
  /\ r_pc = "idle"
  /\ host = ""
  /\ agent_hostname = ""
  /\ host_ip = ""
  /\ agent_ip = ""
  /\ result = ""
  /\ n_get_hostname = 0
  /\ n_lookups = 0
  /\ n_debug = 0
  /\ failed = ""
  /\ prev = <<>>
  /\ between = FALSE

\* Between two calls the agent's hostname or the name resolution changes.
EnvChange ==
  /\ r_pc = "idle"
  /\ \E a \in AgentNames, m \in DnsMaps :
       /\ <<a, m>> # <<agent_name, dns>>
       /\ agent_name' = a
       /\ dns' = m
  /\ UNCHANGED <<r_pc, host, agent_hostname, host_ip, agent_ip, result,
                 n_get_hostname, n_lookups, n_debug, failed, prev, between>>
  /\ UNCHANGED <<tvars, xvars, lvars>>

\* Fault: the last call's result reused when the same host is asked again.
RCallCached(h) ==
  /\ r_pc = "idle"
  /\ host' = h
  /\ agent_hostname' = agent_name
  /\ n_get_hostname' = 1
  /\ n_lookups' = 0
  /\ n_debug' = 0
  /\ failed' = ""
  /\ host_ip' = ""
  /\ agent_ip' = ""
  /\ IF h = host /\ result # ""
       THEN result' = result /\ r_pc' = "returned"
       ELSE result' = "" /\ r_pc' = "check"
  /\ between' = (between \/ (prev # <<>> /\ h # prev[1].host))
  /\ UNCHANGED <<agent_name, dns, prev>>
  /\ UNCHANGED <<tvars, xvars, lvars>>

\* lines 95-96: resolve_db_host(h) is entered; agent_hostname = datadog_agent.get_hostname()
RCall(h) ==
  /\ r_pc = "idle"
  /\ host' = h
  /\ agent_hostname' = agent_name
  /\ n_get_hostname' = 1
  /\ n_lookups' = 0
  /\ n_debug' = 0
  /\ failed' = ""
  /\ host_ip' = ""
  /\ agent_ip' = ""
  /\ result' = ""
  /\ r_pc' = "check"
  /\ between' = (between \/ (prev # <<>> /\ h # prev[1].host))
  /\ UNCHANGED <<agent_name, dns, prev>>
  /\ UNCHANGED <<tvars, xvars, lvars>>

\* lines 97-98: return agent_hostname
RLocal ==
  /\ r_pc = "check"
  /\ IsLocal(host)
  /\ result' = agent_hostname
  /\ r_pc' = "returned"
  /\ UNCHANGED <<agent_name, dns, host, agent_hostname, host_ip, agent_ip,
                 n_get_hostname, n_lookups, n_debug, failed, prev, between>>
  /\ UNCHANGED <<tvars, xvars, lvars>>

\* line 100: host_ip = socket.gethostbyname(host) succeeds
RLookupHost ==
  /\ r_pc = "check"
  /\ ~IsLocal(host)
  /\ GetHostByName(host) # NXDOMAIN
  /\ host_ip' = GetHostByName(host)
  /\ n_lookups' = n_lookups + 1
  /\ r_pc' = "lookup_agent"
  /\ UNCHANGED <<agent_name, dns, host, agent_hostname, agent_ip, result,
                 n_get_hostname, n_debug, failed, prev, between>>
  /\ UNCHANGED <<tvars, xvars, lvars>>

\* Fault: socket.gaierror not caught.
FallbackRaises(which) ==
  /\ n_lookups' = n_lookups + 1
  /\ failed' = which
  /\ r_pc' = "raised"
  /\ UNCHANGED <<agent_name, dns, host, agent_hostname, host_ip, agent_ip, result,
                 n_debug, n_get_hostname, prev, between>>
  /\ UNCHANGED <<tvars, xvars, lvars>>

\* lines 107-110: a lookup raised socket.gaierror; LOGGER.debug(...); return agent_hostname
Fallback(which) ==
  /\ n_lookups' = n_lookups + 1
  /\ failed' = which
  /\ n_debug' = n_debug + 1
  /\ result' = agent_hostname
  /\ r_pc' = "returned"
  /\ UNCHANGED <<agent_name, dns, host, agent_hostname, host_ip, agent_ip,
                 n_get_hostname, prev, between>>
  /\ UNCHANGED <<tvars, xvars, lvars>>

\* line 100: socket.gethostbyname(host) raises socket.gaierror
RLookupHostFails ==
  /\ r_pc = "check"
  /\ ~IsLocal(host)
  /\ GetHostByName(host) = NXDOMAIN
  /\ Fallback("host")

\* lines 101-106: socket.gethostbyname(agent_hostname) succeeds; compare and return
RLookupAgent ==
  /\ r_pc = "lookup_agent"
  /\ GetHostByName(agent_hostname) # NXDOMAIN
  /\ agent_ip' = GetHostByName(agent_hostname)
  /\ n_lookups' = n_lookups + 1
  /\ result' = ResolvedHost(host, host_ip, agent_ip', agent_hostname)
  /\ r_pc' = "returned"
  /\ UNCHANGED <<agent_name, dns, host, agent_hostname, host_ip,
                 n_get_hostname, n_debug, failed, prev, between>>
  /\ UNCHANGED <<tvars, xvars, lvars>>

\* line 101: socket.gethostbyname(agent_hostname) raises socket.gaierror
RLookupAgentFails ==
  /\ r_pc = "lookup_agent"
  /\ GetHostByName(agent_hostname) = NXDOMAIN
  /\ Fallback("agent")

\* The record of the call that has just returned.
ThisCall == [host |-> host, agent |-> agent_name, dns |-> dns, result |-> result]

\* The caller has the result. The call may be kept as the earlier call that
\* later ones are compared with.
RReturn ==
  /\ r_pc = "returned"
  /\ r_pc' = "idle"
  /\ \/ UNCHANGED <<prev, between>>
     \/ prev' = <<ThisCall>> /\ between' = FALSE
  /\ UNCHANGED <<agent_name, dns, host, agent_hostname, host_ip, agent_ip, result,
                 n_get_hostname, n_lookups, n_debug, failed>>
  /\ UNCHANGED <<tvars, xvars, lvars>>

(***************************************************************************)
(* Specifications                                                          *)
(***************************************************************************)
vars == <<tvars, xvars, lvars, rvars>>

\* The helpers other than the transformer, unused.
OthersIdle ==
  /\ CreateExtraTransformer(None)
  /\ LimiterInit(0, 0)
  /\ ResolverInit("agent.local", [n \in DnsNames |-> NXDOMAIN])

\* One caller, invoking the transformer again and again.
InitT ==
  /\ \E cargs \in ArgTuples, mods \in Dicts : GetTransformer(cargs, mods, {"c1"})
  /\ OthersIdle

NextT ==
  \/ \E c \in Callers : Invoke(c, SourceMaps, ArgTuples, Dicts)
  \/ \E c \in Callers : Update(c)
  \/ \E c \in Callers : Submit(c)
  \/ \E c \in Callers : Return(c)

SpecT == InitT /\ [][NextT]_vars

\* Several callers, their steps interleaved.
InitC ==
  /\ \E cargs \in TuplesUpTo(1), mods \in Dicts : GetTransformer(cargs, mods, Callers)
  /\ OthersIdle

NextC ==
  \/ \E c \in Callers : Invoke(c, {ConcSourceMap}, ConcArgTuples, Dicts)
  \/ \E c \in Callers : Update(c)
  \/ \E c \in Callers : Submit(c)
  \/ \E c \in Callers : Return(c)

SpecC == InitC /\ [][NextC]_vars

\* The extra transformer wrapper, invoked again and again.
InitX ==
  /\ \E src \in SourceArgs : CreateExtraTransformer(src)
  /\ GetTransformer(<<>>, EmptyDict, {})
  /\ LimiterInit(0, 0)
  /\ ResolverInit("agent.local", [n \in DnsNames |-> NXDOMAIN])

NextX ==
  \/ \E srcs \in SourceMaps, a \in ArgTuples, k \in Dicts :
       XInvokeColumnTransformer(srcs, a, k)
  \/ \E srcs \in SourceMaps, a \in ArgTuples, k \in Dicts :
       XInvokeWrapper(srcs, a, k)
  \/ XCallColumnTransformer
  \/ XKeyError
  \/ XDone

SpecX == InitX /\ [][NextX]_vars

\* One limiter, sleep() called again and again while time passes.
InitL ==
  /\ \E rate \in Rates, t \in 0..MaxTime : LimiterInit(rate, t)
  /\ GetTransformer(<<>>, EmptyDict, {})
  /\ CreateExtraTransformer(None)
  /\ ResolverInit("agent.local", [n \in DnsNames |-> NXDOMAIN])

NextL ==
  \/ Tick
  \/ LSleepEnter
  \/ LSleepStart
  \/ LWake
  \/ LStamp

SpecL == InitL /\ [][NextL]_vars

\* resolve_db_host called again and again, the environment changing between calls.
InitR ==
  /\ \E a \in AgentNames, m \in DnsMaps : ResolverInit(a, m)
  /\ GetTransformer(<<>>, EmptyDict, {})
  /\ CreateExtraTransformer(None)
  /\ LimiterInit(0, 0)

NextR ==
  \/ EnvChange
  \/ \E h \in ConfiguredHosts : RCall(h)
  \/ RLocal
  \/ RLookupHost
  \/ RLookupHostFails
  \/ RLookupAgent
  \/ RLookupAgentFails
  \/ RReturn

SpecR == InitR /\ [][NextR]_vars

(***************************************************************************)
(* Claims about create_submission_transformer                              *)
(***************************************************************************)
\* The one submit_method call of a returned invocation.
Sub(c) == submitted[c][1]

\* C1 as stated: the keyword arguments passed to submit_method are the union
\* of modifiers and kwargs, and on a key present in both the call-time value
\* is the one passed.
C1_CallTimeWins ==
  \A c \in callers : t_pc[c] = "returned" =>
    /\ DOMAIN Sub(c).kwargs = (DOMAIN modifiers0) \cup (DOMAIN call_kwargs[c])
    /\ \A k \in (DOMAIN modifiers0) \cap (DOMAIN call_kwargs[c]) :
         Sub(c).kwargs[k] = call_kwargs[c][k]

\* C1 amended: the keyword arguments passed to submit_method are the union of
\* modifiers and kwargs; every modifier key carries the creation-time value
\* (so creation-time keys override call-time keys on conflict) and every
\* other key carries the call-time value.
C1_ModifiersWin ==
  \A c \in callers : t_pc[c] = "returned" =>
    /\ DOMAIN Sub(c).kwargs = (DOMAIN modifiers0) \cup (DOMAIN call_kwargs[c])
    /\ \A k \in DOMAIN modifiers0 : Sub(c).kwargs[k] = modifiers0[k]
    /\ \A k \in (DOMAIN call_kwargs[c]) \ (DOMAIN modifiers0) :
         Sub(c).kwargs[k] = call_kwargs[c][k]

\* An invocation has returned whose keywords and the modifiers share a key
\* with different values, each side also having a key of its own.
C1_Witness ==
  /\ t_pc["c1"] = "returned"
  /\ Collides(call_kwargs["c1"], modifiers0)
  /\ DOMAIN call_kwargs["c1"] = Keys
  /\ DOMAIN modifiers0 = {"tags"}

\* C2: every invocation calls submit_method exactly once (no call before
\* line 43, one call once the invocation has returned), and the positional
\* arguments of that call are the creation-time arguments followed by the
\* call-time arguments, each group in its order, and nothing else.
C2_OnceCreationThenCall ==
  \A c \in callers :
    /\ t_pc[c] \in {"idle", "update", "submit"} => Len(submitted[c]) = 0
    /\ t_pc[c] = "returned" =>
         /\ Len(submitted[c]) = 1
         /\ Len(Sub(c).args) = Len(creation_args0) + Len(call_args[c])
         /\ \A i \in 1..Len(creation_args0) : Sub(c).args[i] = creation_args0[i]
         /\ \A j \in 1..Len(call_args[c]) :
              Sub(c).args[Len(creation_args0) + j] = call_args[c][j]

\* An invocation has returned where both groups hold two different values,
\* in opposite orders.
C2_Witness ==
  /\ t_pc["c1"] = "returned"
  /\ creation_args0 = <<1, 2>>
  /\ call_args["c1"] = <<2, 1>>

\* C8: after any sequence of invocations the closed-over creation_args and
\* modifiers equal their values at construction, and what an invocation
\* submits is determined by those values and its own call-time arguments,
\* whatever earlier invocations passed.
C8_ClosureFixed ==
  /\ creation_args = creation_args0
  /\ modifiers = modifiers0
  /\ \A c \in callers : t_pc[c] = "returned" =>
       submitted[c] = <<[args |-> creation_args0 \o call_args[c],
                         kwargs |-> DictUpdate(call_kwargs[c], modifiers0)]>>

\* A later invocation without keywords has returned, after an earlier one
\* whose keywords collided with the modifiers.
C8_Witness ==
  /\ collided
  /\ t_pc["c1"] = "returned"
  /\ call_kwargs["c1"] = EmptyDict
  /\ modifiers0 # EmptyDict

\* What caller c's invocation submits when it runs alone.
Alone(c) ==
  [args |-> creation_args0 \o call_args[c],
   kwargs |-> [k \in (DOMAIN call_kwargs[c]) \cup (DOMAIN modifiers0) |->
                 IF k \in DOMAIN modifiers0 THEN modifiers0[k] ELSE call_kwargs[c][k]]]

\* C9: with the callers' steps interleaved, each caller's frame holds, after
\* its merge, the keyword arguments it would hold alone, and its
\* submit_method call receives the arguments it would receive alone.
C9_InterleavingSafe ==
  \A c \in callers :
    /\ t_pc[c] = "submit" => kwargs[c] = Alone(c).kwargs
    /\ t_pc[c] = "returned" => submitted[c] = <<Alone(c)>>

\* Both callers have returned, each having seen the other step while its own
\* frame was live, and they passed different arguments.
C9_Witness ==
  /\ t_pc["c1"] = "returned" /\ t_pc["c2"] = "returned"
  /\ overlap["c1"] /\ overlap["c2"]
  /\ call_args["c1"] # call_args["c2"]
  /\ Collides(call_kwargs["c1"], call_kwargs["c2"])

(***************************************************************************)
(* Claims about create_extra_transformer                                   *)
(***************************************************************************)
\* C3: with a reference name that the Source Map contains, an invocation of
\* the wrapper calls column_transformer exactly once, with the Source Map,
\* the value sources[source] as the only extra positional argument, and the
\* call's keyword arguments unchanged. With no reference name (None or "")
\* the returned callable is column_transformer itself: it receives the
\* caller's arguments as passed and no added value. An invocation ends
\* without a column_transformer call only by raising: KeyError when the
\* Source Map lacks the name, TypeError when the wrapper is passed extra
\* positional arguments.
C3_ExtraTransformer ==
  /\ (x_transformer = "column_transformer") <=> (x_source \in {None, ""})
  /\ x_pc \in {"idle", "call", "raised"} => column_calls = <<>>
  /\ x_pc = "raised" =>
       /\ x_source \notin {None, ""}
       /\ \/ x_error = "TypeError" /\ Len(x_args) > 0
          \/ x_error = "KeyError" /\ x_source \notin DOMAIN x_sources
  /\ (x_pc = "returned" /\ x_source \notin {None, ""}) =>
       /\ x_source \in DOMAIN x_sources
       /\ column_calls = <<[sources |-> x_sources,
                            args |-> <<x_sources[x_source]>>,
                            kwargs |-> x_kwargs]>>
  /\ (x_pc = "returned" /\ x_source \in {None, ""}) =>
       column_calls = <<[sources |-> x_sources, args |-> x_args, kwargs |-> x_kwargs]>>

\* The wrapper for col_b has returned, the Source Map holding different
\* values under col_a and col_b, and keywords being passed.
C3_Witness ==
  /\ x_pc = "returned"
  /\ x_source = "col_b"
  /\ x_sources = [r \in Refs |-> IF r = "col_a" THEN 1 ELSE 2]
  /\ DOMAIN x_kwargs = Keys

\* An invocation of the identity case has returned: no reference name, two
\* positional arguments and keywords passed through.
C3_WitnessIdentity ==
  /\ x_pc = "returned"
  /\ x_source = ""
  /\ x_args = <<2, 1>>
  /\ DOMAIN x_sources = Refs
  /\ DOMAIN x_kwargs = Keys

(***************************************************************************)
(* Claims about resolve_db_host                                            *)
(***************************************************************************)
\* The configured hosts that line 97 sends back to the agent hostname.
LocalHosts == {None, "", "localhost", "127.0.0.1"}

\* C4: for a configured host that is not empty/localhost/127.0.0.1, when both
\* the host and the agent hostname resolve, the call returns the agent
\* hostname if and only if the two resolved IPs are equal, and the configured
\* host unchanged otherwise; the result of any call is the agent hostname or
\* the configured host.
C4_AliasOrExternal ==
  r_pc = "returned" =>
    /\ result \in {agent_name, host}
    /\ (/\ host \notin LocalHosts
        /\ dns[host] # NXDOMAIN
        /\ dns[agent_name] # NXDOMAIN) =>
         /\ host_ip = dns[host]
         /\ agent_ip = dns[agent_name]
         /\ (result = agent_name) <=> (dns[host] = dns[agent_name])
         /\ dns[host] # dns[agent_name] => result = host

\* A call has returned the agent hostname for another name with the same IP.
C4_Witness ==
  /\ r_pc = "returned"
  /\ host \notin LocalHosts
  /\ host # agent_name
  /\ dns[host] # NXDOMAIN
  /\ dns[host] = dns[agent_name]
  /\ result = agent_name

\* A call has returned the configured host, whose IP is not the agent's.
C4_WitnessExternal ==
  /\ r_pc = "returned"
  /\ host \notin LocalHosts
  /\ dns[host] # NXDOMAIN
  /\ dns[agent_name] # NXDOMAIN
  /\ dns[host] # dns[agent_name]
  /\ result = host

\* C5: for a configured host that is None, "", "localhost" or "127.0.0.1" the
\* call returns the agent hostname without any name-resolution lookup; and
\* every call queries the agent identity service exactly once.
C5_LocalShortCircuit ==
  /\ r_pc \in {"check", "lookup_agent", "returned"} => n_get_hostname = 1
  /\ (r_pc = "returned" /\ host \in LocalHosts) =>
       /\ result = agent_name
       /\ n_lookups = 0

\* A call for "127.0.0.1" has returned.
C5_Witness ==
  /\ r_pc = "returned"
  /\ host = "127.0.0.1"
  /\ result = agent_name
  /\ n_lookups = 0

\* C6: no call ends by raising; a call in which a lookup fails (that of the
\* configured host, or that of the agent hostname once the configured host
\* has resolved) emits one debug record and returns the agent hostname; a
\* result other than the agent hostname is returned only with both lookups
\* made and succeeding.
C6_FailureFallsBack ==
  /\ r_pc # "raised"
  /\ (/\ r_pc = "returned"
      /\ host \notin LocalHosts
      /\ (dns[host] = NXDOMAIN \/ dns[agent_name] = NXDOMAIN)) =>
       /\ n_debug = 1
       /\ result = agent_name
  /\ (r_pc = "returned" /\ result # agent_name) =>
       /\ result = host
       /\ n_lookups = 2
       /\ dns[host] # NXDOMAIN
       /\ dns[agent_name] # NXDOMAIN

\* A call has returned after the configured host resolved and the agent
\* hostname did not.
C6_Witness ==
  /\ r_pc = "returned"
  /\ host \notin LocalHosts
  /\ host # agent_name
  /\ dns[host] # NXDOMAIN
  /\ dns[agent_name] = NXDOMAIN
  /\ n_lookups = 2
  /\ n_debug = 1

\* A call has returned after the lookup of the configured host failed.
C6_WitnessHostFails ==
  /\ r_pc = "returned"
  /\ host \notin LocalHosts
  /\ dns[host] = NXDOMAIN
  /\ n_lookups = 1
  /\ n_debug = 1

\* C7: a call returns what any earlier call for the same configured host
\* under the same agent hostname and the same name-resolution mapping
\* returned, whatever calls were made in between.
C7_Idempotent ==
  (/\ r_pc = "returned"
   /\ prev # <<>>
   /\ prev[1].host = host
   /\ prev[1].agent = agent_name
   /\ prev[1].dns = dns) =>
     prev[1].result = result

\* A call for an external host has returned in the environment of an earlier
\* call for the same host, a call for another host having been made in between.
C7_Witness ==
  /\ r_pc = "returned"
  /\ prev # <<>>
  /\ prev[1].host = host
  /\ prev[1].agent = agent_name
  /\ prev[1].dns = dns
  /\ between
  /\ host \notin LocalHosts
  /\ result = host
  /\ result # agent_name

(***************************************************************************)
(* Claims about ConstantRateLimiter                                        *)
(***************************************************************************)
\* C10: the sleep amount is never negative; with rate_limit_s > 0 the period
\* is 1/rate_limit_s, with rate_limit_s <= 0 it is 0 and sleep() asks for no
\* delay; the completion times of two consecutive sleep() calls (the first
\* call's predecessor being the initial last_event, 0) are at least period_s
\* apart; and a call that finds at least period_s elapsed since last_event
\* sleeps for 0.
C10_RateEnforced ==
  /\ sleep_amount >= 0
  /\ rate_limit_s > 0 => period_s = TicksPerSecond \div rate_limit_s
  /\ rate_limit_s <= 0 => (period_s = 0 /\ sleep_amount = 0)
  /\ completed = 0 => last_event = 0
  /\ completed >= 1 => last_event - prev_event >= period_s
  /\ (l_pc \in {"sleep", "sleeping", "stamp"} /\ elapsed_s >= period_s) =>
       sleep_amount = 0
  /\ (l_pc \in {"sleeping", "stamp"} /\ sleep_amount = 0) => wake_at <= now

\* Two consecutive sleep() calls have completed, the second having slept,
\* exactly one period apart.
C10_Witness ==
  /\ l_pc = "idle"
  /\ completed = 2
  /\ rate_limit_s > 1
  /\ sleep_amount > 0
  /\ prev_event > 0
  /\ last_event - prev_event = period_s

\* The first call on a new limiter has found the period elapsed and slept for 0.
C10_WitnessFirstCall ==
  /\ l_pc = "stamp"
  /\ completed = 0
  /\ rate_limit_s > 0
  /\ elapsed_s >= period_s
  /\ sleep_amount = 0

=============================================================================
